---- MODULE Spec2Model ----
(***************************************************************************)
(* Model of the Poem Booth certificate tooling: CertificateGenerator       *)
(* (src/src/certificate-generator.ts) working on a file system through     *)
(* fs/promises and the openssl command line tool.                          *)
(*                                                                         *)
(* Strings are sequences of tokens (a token is a piece of text that the    *)
(* model never has to look inside); Str flattens a token sequence to the   *)
(* text it stands for, so that two paths or two values are equal exactly   *)
(* when their texts are equal.                                             *)
(***************************************************************************)
EXTENDS Integers, Sequences, FiniteSets, TLC

\* ------------------------------------------------------------------ bounds
\* generateDeviceCertificate calls in one behaviour
MaxIssue == 2
\* runs of the CA generation branch of ensureCAExists in one behaviour
MaxCAGen == 2

\* ----------------------------------------------------------------- strings
NL == "\n"
SP == " "

RECURSIVE Str(_)
Str(s) == IF s = <<>> THEN "" ELSE Head(s) \o Str(Tail(s))

Last(s) == s[Len(s)]
Front(s) == SubSeq(s, 1, Len(s) - 1)

IsSpace(t) == t \in {NL, SP}

\* String.prototype.trim: leading and trailing white space removed
RECURSIVE TrimLeft(_)
TrimLeft(s) == IF s # <<>> /\ IsSpace(Head(s)) THEN TrimLeft(Tail(s)) ELSE s
RECURSIVE TrimRight(_)
TrimRight(s) == IF s # <<>> /\ IsSpace(Last(s)) THEN TrimRight(Front(s)) ELSE s
Trim(s) == TrimRight(TrimLeft(s))

\* the pieces of s between the occurrences of sep
RECURSIVE SplitAcc(_, _, _, _)
SplitAcc(s, sep, cur, acc) ==
  IF s = <<>> THEN Append(acc, cur)
  ELSE IF Head(s) = sep THEN SplitAcc(Tail(s), sep, <<>>, Append(acc, cur))
  ELSE SplitAcc(Tail(s), sep, Append(cur, Head(s)), acc)
Split(s, sep) == SplitAcc(s, sep, <<>>, <<>>)

RECURSIVE JoinWith(_, _)
JoinWith(segs, sep) ==
  IF segs = <<>> THEN <<>>
  ELSE IF Len(segs) = 1 THEN Head(segs)
  ELSE Head(segs) \o <<sep>> \o JoinWith(Tail(segs), sep)

\* `${n}` for a non-negative integer: its decimal digits
Digit(d) == <<"0", "1", "2", "3", "4", "5", "6", "7", "8", "9">>[d + 1]
RECURSIVE NumToStr(_)
NumToStr(n) == IF n < 10 THEN <<Digit(n)>> ELSE NumToStr(n \div 10) \o <<Digit(n % 10)>>

\* ------------------------------------------------------------------- paths
\* path.join: the segments joined with "/" and normalised ("", "." dropped,
\* ".." removes the segment before it)
RECURSIVE NormSegs(_, _)
NormSegs(segs, acc) ==
  IF segs = <<>> THEN acc
  ELSE LET h == Head(segs) IN
       IF h = <<>> \/ h = <<".">> THEN NormSegs(Tail(segs), acc)
       ELSE IF h = <<"..">> /\ acc # <<>> /\ Last(acc) # <<"..">>
            THEN NormSegs(Tail(segs), Front(acc))
       ELSE NormSegs(Tail(segs), Append(acc, h))
PathJoin(a, b) == JoinWith(NormSegs(Split(a \o <<"/">> \o b, "/"), <<>>), "/")

\* the directory a path lies in
DirOf(p) == JoinWith(Front(Split(p, "/")), "/")

\* process.cwd()
baseDir == <<"base">>
caDir == PathJoin(baseDir, <<"ca">>)
certsDir == PathJoin(baseDir, <<"device-certs">>)

\* asset tags the operator may type (index.ts asks for three characters or
\* more and nothing else); the last one names a path outside device-certs
AssetTags == {<<"PB-005">>, <<"PB-006">>, <<"..", "/", "ca", "/", "ca">>}

\* the files the program names: each with its path and its directory as text
File(tokens) == [path |-> Str(tokens), dir |-> Str(DirOf(tokens))]
caCert == File(PathJoin(caDir, <<"ca-cert.pem">>))
caKey == File(PathJoin(caDir, <<"ca-key.pem">>))
caPassword == File(PathJoin(caDir, <<"ca-password.txt">>))
\* openssl x509 -CA <file> -CAcreateserial keeps the serial beside the CA
\* certificate, under its name with the extension .srl
caSerial == File(PathJoin(caDir, <<"ca-cert.srl">>))
caCertPath == caCert.path
caKeyPath == caKey.path
caPasswordPath == caPassword.path
caSerialPath == caSerial.path

DeviceFiles ==
  [assetTag \in AssetTags |->
     [privateKey |-> File(PathJoin(certsDir, assetTag \o <<"-key.pem">>)),
      cert |-> File(PathJoin(certsDir, assetTag \o <<"-cert.pem">>)),
      csr |-> File(PathJoin(certsDir, assetTag \o <<".csr">>)),
      config |-> File(PathJoin(certsDir, assetTag \o <<"-openssl.cnf">>))]]
privateKeyPath(assetTag) == DeviceFiles[assetTag].privateKey.path
certPath(assetTag) == DeviceFiles[assetTag].cert.path
csrPath(assetTag) == DeviceFiles[assetTag].csr.path
configPath(assetTag) == DeviceFiles[assetTag].config.path

AllFiles ==
  {caCert, caKey, caPassword, caSerial}
    \cup UNION {{DeviceFiles[t].privateKey, DeviceFiles[t].cert,
                 DeviceFiles[t].csr, DeviceFiles[t].config} : t \in AssetTags}
AllPaths == {f.path : f \in AllFiles}
DirTable == [p \in AllPaths |-> (CHOOSE f \in AllFiles : f.path = p).dir]

\* ------------------------------------------------ openssl configuration text
\* the template of generateDeviceCertificate with its four interpolations
opensslConfig(deviceId, equipmentId, hubId, assetTag) ==
     <<NL, "[req]", NL,
       "distinguished_name = ", "req_distinguished_name", NL,
       "req_extensions = ", "v3_req", NL,
       "prompt = ", "no", NL,
       NL,
       "[req_distinguished_name]", NL,
       "C = ", "NL", NL,
       "ST = ", "Noord-Holland", NL,
       "L = ", "Amsterdam", NL,
       "O = ", "Poem Booth", NL,
       "CN = ">> \o deviceId \o <<NL,
       NL,
       "[v3_req]", NL,
       "basicConstraints = ", "CA:FALSE", NL,
       "keyUsage = ", "digitalSignature, keyEncipherment", NL,
       "extendedKeyUsage = ", "clientAuth", NL,
       "subjectAltName = ", "@", "alt_names", NL,
       NL,
       "[alt_names]", NL,
       "URI.1 = ", "urn:device:">> \o deviceId \o <<NL,
       "URI.2 = ", "urn:equipment:">> \o NumToStr(equipmentId) \o <<NL,
       "URI.3 = ", "urn:hub:">> \o hubId \o <<NL,
       "DNS.1 = ">> \o assetTag \o <<".booth.internal", NL>>

\* What openssl reads in a configuration file: "[name]" lines open (or
\* re-open) a section, "key = value" lines add an entry to the open section,
\* "#" starts a comment, white space around a value is dropped, and any other
\* non-empty line is an error (missing equal sign).
Headers == {"[req]", "[req_distinguished_name]", "[v3_req]", "[alt_names]"}
URIKeys == {"URI.1 = ", "URI.2 = ", "URI.3 = ", "URI.9 = "}
DNSKeys == {"DNS.1 = ", "DNS.2 = "}
ConfKeys == {"distinguished_name = ", "req_extensions = ", "prompt = ",
             "C = ", "ST = ", "L = ", "O = ", "CN = ",
             "basicConstraints = ", "keyUsage = ", "extendedKeyUsage = ",
             "subjectAltName = "} \cup URIKeys \cup DNSKeys
Sections == Headers \cup {"default"}

RECURSIVE StripComment(_)
StripComment(line) ==
  IF line = <<>> \/ Head(line) = "#" THEN <<>>
  ELSE <<Head(line)>> \o StripComment(Tail(line))

\* a later entry with the same key replaces the earlier one and goes last
AddEntry(entries, k, v) ==
  Append(SelectSeq(entries, LAMBDA e : e.key # k), [key |-> k, value |-> v])

ConfLine(st, raw) ==
  LET line == Trim(StripComment(raw)) IN
  IF ~st.ok \/ line = <<>> THEN st
  ELSE IF Len(line) = 1 /\ Head(line) \in Headers THEN [st EXCEPT !.cur = Head(line)]
  ELSE IF Head(line) \in ConfKeys
       THEN [st EXCEPT !.secs[st.cur] = AddEntry(@, Head(line), Trim(Tail(line)))]
  ELSE [st EXCEPT !.ok = FALSE]

RECURSIVE ConfLines(_, _)
ConfLines(st, lines) ==
  IF lines = <<>> THEN st ELSE ConfLines(ConfLine(st, Head(lines)), Tail(lines))

ReadConf(text) ==
  ConfLines([ok |-> TRUE, cur |-> "default", secs |-> [s \in Sections |-> <<>>]],
            Split(text, NL))

HasKey(entries, k) == \E i \in 1..Len(entries) : entries[i].key = k
ValueOf(entries, k) == (CHOOSE i \in 1..Len(entries) : entries[i].key = k)
ConfValue(entries, k) == entries[ValueOf(entries, k)].value

\* the section a value names ("req_distinguished_name", or "@alt_names")
SectionNamed(v) == "[" \o Str(v) \o "]"

\* subject common name a request built from this configuration carries
\* (openssl req: section [req], distinguished_name, prompt = no)
ConfHasSubject(conf) ==
  /\ conf.ok
  /\ HasKey(conf.secs["[req]"], "distinguished_name = ")
  /\ SectionNamed(ConfValue(conf.secs["[req]"], "distinguished_name = ")) \in Headers
  /\ conf.secs[SectionNamed(ConfValue(conf.secs["[req]"], "distinguished_name = "))] # <<>>
ConfCN(conf) ==
  LET dn == conf.secs[SectionNamed(ConfValue(conf.secs["[req]"], "distinguished_name = "))]
  IN IF HasKey(dn, "CN = ") THEN Str(ConfValue(dn, "CN = ")) ELSE ""

\* the subjectAltName of section v3_req: the entries of the section it names
SanEntry(e) ==
  [kind |-> IF e.key \in URIKeys THEN "URI" ELSE "DNS", value |-> Str(e.value)]
ConfSAN(conf) ==
  LET ext == conf.secs["[v3_req]"] IN
  IF ~HasKey(ext, "subjectAltName = ") THEN <<>>
  ELSE LET v == ConfValue(ext, "subjectAltName = ")
           sec == IF v # <<>> /\ Head(v) = "@" THEN SectionNamed(Tail(v)) ELSE "default"
           entries == IF sec \in Headers THEN conf.secs[sec] ELSE <<>>
           named == SelectSeq(entries, LAMBDA e : e.key \in URIKeys \cup DNSKeys)
       IN [i \in 1..Len(named) |-> SanEntry(named[i])]
\* basicConstraints of section v3_req
ConfIsCA(conf) ==
  LET ext == conf.secs["[v3_req]"] IN
  HasKey(ext, "basicConstraints = ") /\ Str(ConfValue(ext, "basicConstraints = ")) = "CA:TRUE"


\* ------------------------------------------------------------------ inputs
\* hub ids: a plain one, one carrying a second line, one carrying lines that
\* re-open other sections
HubPlain == <<"hub-1">>
HubExtraName == <<"h", NL, "DNS.2 = ", "evil.example">>
HubOverride == <<"h", NL, "[req_distinguished_name]", NL, "CN = ", "evil", NL,
                 "[v3_req]", NL, "basicConstraints = ", "CA:TRUE", NL, "[alt_names]">>
\* the (assetTag, hubId, equipmentId) triples generateDeviceCertificate is
\* called with
Requests ==
  {[assetTag |-> <<"PB-005">>, hubId |-> HubPlain, equipmentId |-> 42],
   [assetTag |-> <<"PB-005">>, hubId |-> HubExtraName, equipmentId |-> 42],
   [assetTag |-> <<"PB-006">>, hubId |-> HubOverride, equipmentId |-> 7],
   [assetTag |-> <<"..", "/", "ca", "/", "ca">>, hubId |-> HubPlain, equipmentId |-> 42]}

\* ------------------------------------------------------------ file contents
Absent == [type |-> "absent"]
\* a file of length zero
Empty == [type |-> "empty"]
\* an RSA private key; pass is the passphrase it is encrypted under, "" if none
KeyFile(k, pass) == [type |-> "key", key |-> k, pass |-> pass]
TextFile(text) == [type |-> "text", text |-> text]
ConfFile(text) == [type |-> "cnf", text |-> text]
CsrFile(k, cn) == [type |-> "csr", key |-> k, cn |-> cn]
SrlFile(n) == [type |-> "srl", serial |-> n]
CertFile(cn, san, ca, subjectKey, issuerKey, serial) ==
  [type |-> "cert", cn |-> cn, san |-> san, ca |-> ca,
   subjectKey |-> subjectKey, issuerKey |-> issuerKey, serial |-> serial]
\* the self-signed certificate openssl req -x509 makes for key k
CACert(k) == CertFile("Poem Booth Root CA", <<>>, TRUE, k, k, 0)

\* crypto.createHash('sha256').update(content).digest('hex')
Sha256(content) == <<"sha256", content>>

CAPaths == {caCertPath, caKeyPath, caPasswordPath}
DevicePaths(assetTag) ==
  {privateKeyPath(assetTag), certPath(assetTag), csrPath(assetTag), configPath(assetTag)}

\* the serial number openssl draws when the serial file does not exist yet
FirstSerials == {1, 5}

VARIABLES
  dirs,        \* the directories that exist
  files,       \* path -> content
  ret,         \* what the last call returned or threw
  written,     \* the paths the last call wrote, truncated or removed
  nIssue,      \* generateDeviceCertificate calls so far
  nGen,        \* runs of the CA generation branch so far
  nKey,        \* RSA keys generated so far
  caCreated,   \* an ensureCAExists call has returned isNew = true
  genAborted,  \* a CA generation branch ended in an error
  firstBoot,   \* what the first successful ensureCAExists call returned
  issued,      \* one record per successful generateDeviceCertificate call
  signed,      \* every leaf certificate openssl has signed, in order
  deviceIds,   \* the deviceId of every generateDeviceCertificate call
  thrown,      \* the message of the error the last call threw, <<>> if none
  swallowed,   \* the failed steps the last call caught and went on after
  pc,          \* where main is
  answers,     \* what the operator entered in this run of main
  local,       \* the constants main has bound so far in this run
  db,          \* the tables of the database
  console      \* the lines this run of main has printed

coreVars == <<dirs, files, ret, written, nIssue, nGen, nKey, caCreated, genAborted,
              firstBoot, issued, signed, deviceIds, thrown, swallowed>>
mainVars == <<pc, answers, local, db, console>>
vars == <<coreVars, mainVars>>

None == [type |-> "none"]

\* crypto.randomBytes(32).toString('hex') and crypto.randomUUID(): values
\* that no earlier call has drawn
randomBytesHex(n) == <<"c0ffee">> \o NumToStr(n)
randomUUID(n) == <<"uuid-">> \o NumToStr(n)

\* the operator's answers: an asset tag typed in (three characters or more)
\* and a hub picked from the list the database returned
Answers == {[assetTag |-> a, hubId |-> HubPlain] : a \in {<<"PB-005">>, <<"..", "/", "ca", "/", "ca">>}}
\* rows the equipment table can hold, and the id the database gives the first
MaxEquipment == 2
FirstEquipmentId == 42
EquipmentIds == FirstEquipmentId..(FirstEquipmentId + MaxEquipment - 1)

\* every configuration text a call can write, read once
AllConfigs ==
  {Trim(opensslConfig(randomUUID(n), r.equipmentId, r.hubId, r.assetTag)) :
     r \in Requests, n \in 1..MaxIssue}
  \cup {Trim(opensslConfig(randomUUID(n), e, a.hubId, a.assetTag)) :
          a \in Answers, e \in EquipmentIds, n \in 1..MaxIssue}
ConfTable == [text \in AllConfigs |-> ReadConf(text)]
ParseConf(text) == ConfTable[text]

\* --------------------------------------------------- file system and openssl
\* A call is a chain of steps over [ok, fs, w, stage, out]: fs the files, w
\* the paths touched so far, stage the step that failed, out what the last
\* read returned.  A step after a failed one does nothing (the exception
\* leaves the function).
Start == [ok |-> TRUE, fs |-> files, w |-> {}, stage |-> "", out |-> None]
Fail(st, stage) == [st EXCEPT !.ok = FALSE, !.stage = stage]
Put(st, path, content) ==
  [st EXCEPT !.fs[path] = content, !.w = @ \cup {path}]
Exists(fs, path) == fs[path].type # "absent"
Writable(path) == DirTable[path] \in dirs

\* fs.writeFile
WriteFile(st, path, content, fault, stage) ==
  IF ~st.ok THEN st
  ELSE IF fault = stage \/ ~Writable(path) THEN Fail(st, stage)
  ELSE Put(st, path, content)

\* a read that opens the file for appending too: a missing file is created
\* empty and read as such
ReadFileCreating(st, path, fault, stage) ==
  IF ~st.ok THEN st
  ELSE IF fault = stage THEN Fail(st, stage)
  ELSE IF ~Exists(st.fs, path) THEN [Put(st, path, Empty) EXCEPT !.out = Empty]
  ELSE [st EXCEPT !.out = st.fs[path]]
\* fs.readFile
ReadFile(st, path, fault, stage) ==
  IF ~st.ok THEN st
  ELSE IF fault = stage \/ ~Exists(st.fs, path) THEN Fail(st, stage)
  ELSE [st EXCEPT !.out = st.fs[path]]

\* fs.unlink(path).catch(() => {})
Unlink(st, path) ==
  IF ~st.ok \/ ~Exists(st.fs, path) THEN st ELSE Put(st, path, Absent)

\* a key file openssl can load with this passphrase
Loadable(f, pass) == f.type = "key" /\ (f.pass = "" \/ f.pass = pass)

\* openssl genrsa -out <out> [-aes256 -passout pass:<pass>] <bits>
Genrsa(st, out, pass, k, fault, stage) ==
  IF ~st.ok THEN st
  ELSE IF fault = stage \/ ~Writable(out) THEN Fail(st, stage)
  ELSE Put(st, out, KeyFile(k, pass))

\* openssl req -new -x509 -key <key> -out <out> -passin pass:<pass> -subj ...
ReqX509(st, key, out, pass, fault, stage) ==
  IF ~st.ok THEN st
  ELSE IF fault = stage \/ ~Loadable(st.fs[key], pass) \/ ~Writable(out)
       THEN Fail(st, stage)
  ELSE Put(st, out, CACert(st.fs[key].key))

\* openssl req -new -key <key> -out <out> -config <config>
ReqNew(st, key, out, config, fault, stage) ==
  IF ~st.ok THEN st
  ELSE LET c == st.fs[config]
           k == st.fs[key]
       IN IF \/ fault = stage
             \/ c.type # "cnf"
             \/ ~ConfHasSubject(ParseConf(c.text))
             \/ ~Loadable(k, "")
             \/ ~Writable(out)
          THEN Fail(st, stage)
          ELSE Put(st, out, CsrFile(k.key, ConfCN(ParseConf(c.text))))

\* a serial file that is read and written back as it was
NextSerialKept(n) == n
\* the serial after the one the serial file holds
NextSerial(n) == n + 1

\* openssl x509 -req -in <in> -CA <CA> -CAkey <CAkey> -CAcreateserial
\*   -out <out> -extensions v3_req -extfile <extfile> -passin pass:<pass>
\* in the order openssl works: it reads the extension file, the request and
\* the CA certificate; then opens (truncates) the output and takes the next
\* serial from the serial file, creating it with a random serial if it is
\* missing; then loads the CA key, checks that it belongs to the CA
\* certificate, signs and writes the certificate.
X509Req(st, in, CA, CAkey, out, extfile, pass, rnd, fault, stage) ==
  IF ~st.ok THEN st
  ELSE LET ext == st.fs[extfile]
           csr == st.fs[in]
           ca == st.fs[CA]
           srl == st.fs[caSerialPath]
       IN IF \/ fault = stage
             \/ ext.type # "cnf"
             \/ ~ParseConf(ext.text).ok
             \/ csr.type # "csr"
             \/ ca.type # "cert"
             \/ ~Writable(out)
          THEN Fail(st, stage)
          ELSE LET n == IF srl.type = "srl" THEN NextSerial(srl.serial) ELSE rnd
                   opened == Put(Put(st, out, Empty), caSerialPath, SrlFile(n))
                   cakey == opened.fs[CAkey]
                   conf == ParseConf(ext.text)
               IN IF ~Loadable(cakey, pass) \/ cakey.key # ca.subjectKey
                  THEN Fail(opened, stage)
                  ELSE Put(opened, out,
                           CertFile(csr.cn, ConfSAN(conf), ConfIsCA(conf),
                                    csr.key, cakey.key, n))

\* ------------------------------------------------------------------ errors
NoError == <<>>
\* the Error a rejected fs promise carries: code, system call and path
FsError(code, path) == <<code, ": ", "open '", path, "'">>
\* the Error execAsync rejects with when the command exits non-zero: its
\* message is "Command failed: " followed by the whole command line
CommandFailed(cmd) == <<"Command failed: ">> \o cmd
\* the command lines of ensureCAExists
GenrsaCACommand(password) ==
  <<"openssl genrsa -out ", caKeyPath, " -aes256 -passout pass:">> \o password
    \o <<" 4096">>
ReqX509Command(password) ==
  <<"openssl req -new -x509 -days 3650 -key ", caKeyPath, " -out ", caCertPath,
    " -passin pass:">> \o password
    \o <<" -subj \"/C=NL/ST=Noord-Holland/L=Amsterdam/O=Poem Booth/CN=Poem Booth Root CA\"">>
\* the command lines of generateDeviceCertificate
GenrsaCommand(assetTag) == <<"openssl genrsa -out ", privateKeyPath(assetTag), " 2048">>
ReqCommand(assetTag) ==
  <<"openssl req -new -key ", privateKeyPath(assetTag), " -out ", csrPath(assetTag),
    " -config ", configPath(assetTag)>>
X509Command(assetTag, password) ==
  <<"openssl x509 -req -in ", csrPath(assetTag), " -CA ", caCertPath, " -CAkey ",
    caKeyPath, " -CAcreateserial -out ", certPath(assetTag),
    " -days 3650 -sha256 -extensions v3_req -extfile ", configPath(assetTag),
    " -passin pass:">> \o password
\* what the generation branch of ensureCAExists throws when a step fails
CAError(stage, password) ==
  CASE stage = "genrsa" -> CommandFailed(GenrsaCACommand(password))
    [] stage = "req" -> CommandFailed(ReqX509Command(password))
    [] stage = "writePass" -> FsError("EACCES", caPasswordPath)
    [] OTHER -> FsError("ENOENT", caCertPath)
\* what generateDeviceCertificate throws when a step fails
IssueError(stage, assetTag, password) ==
  CASE stage = "writeConfig" -> FsError("ENOENT", configPath(assetTag))
    [] stage = "genrsa" -> CommandFailed(GenrsaCommand(assetTag))
    [] stage = "req" -> CommandFailed(ReqCommand(assetTag))
    [] stage = "readPass" -> FsError("ENOENT", caPasswordPath)
    [] stage = "sign" -> CommandFailed(X509Command(assetTag, password))
    [] OTHER -> FsError("ENOENT", certPath(assetTag))

\* ------------------------------------------------------------- CA on disk
\* "none": no CA file at all; "complete": key, certificate and passphrase are
\* there and belong together; "partial": anything else
CAState(fs) ==
  LET key == fs[caKeyPath]
      cert == fs[caCertPath]
      pass == fs[caPasswordPath]
  IN IF \A p \in CAPaths : fs[p].type = "absent" THEN "none"
     ELSE IF /\ key.type = "key" /\ cert.type = "cert" /\ pass.type = "text"
             /\ cert.subjectKey = key.key
             /\ key.pass = Str(Trim(pass.text))
          THEN "complete"
     ELSE "partial"

\* what a call finds when it starts
Pre == [booted |-> firstBoot # None, ca |-> CAState(files)]

Returned(op, args, val) == [op |-> op, ok |-> TRUE, pre |-> Pre, args |-> args, val |-> val]
Thrown(op, args, stage) ==
  [op |-> op, ok |-> FALSE, pre |-> Pre, args |-> args, val |-> [stage |-> stage]]

\* ------------------------------------------------------------------ actions
NoLocals == [caCertContent |-> None, caInfo |-> None, equipmentId |-> 0]
SetupFailed(message) == <<"Setup failed: ">> \o message

\* what follows an awaited call: on success main prints `line` and goes on to
\* `next` with the result bound; on an error it prints the message and exits
Await(next, line, bound) ==
  /\ pc' = IF ret'.ok THEN next ELSE "idle"
  /\ console' = Append(console, IF ret'.ok THEN line ELSE SetupFailed(thrown'))
  /\ local' = IF ret'.ok /\ next # "idle" THEN bound ELSE NoLocals
  /\ answers' = IF ret'.ok /\ next # "idle" THEN answers ELSE None

\* A method of the generator is called by main, when main is at that call,
\* or directly, when main is not running
Called(at, by) == pc = IF by = "main" THEN at ELSE "idle"
Returns(by, next, line, bound) ==
  IF by = "main"
  THEN Await(next, line, bound) /\ UNCHANGED db
  ELSE UNCHANGED <<pc, answers, local, db, console>>

Init ==
  /\ dirs = {Str(baseDir)}
  /\ files = [p \in AllPaths |-> Absent]
  /\ written = {}
  /\ nIssue = 0
  /\ nGen = 0
  /\ nKey = 0
  /\ caCreated = FALSE
  /\ genAborted = FALSE
  /\ firstBoot = None
  /\ issued = <<>>
  /\ signed = <<>>
  /\ deviceIds = <<>>
  /\ thrown = NoError
  /\ swallowed = {}
  /\ pc = "idle"
  /\ answers = None
  /\ local = NoLocals
  /\ db = [trusted_device_cas |-> {}, equipment_inventory |-> {},
           registered_devices |-> {}]
  /\ console = <<>>
  /\ ret = Returned("constructor", None, None)

\* validatePrerequisites: openssl must run; both directories are created
ValidatePrerequisites(fault, by) ==
  /\ Called("validate", by)
  /\ IF fault = "openssl"
     THEN /\ ret' = Thrown("validatePrerequisites", None, "openssl")
          /\ thrown' = <<"OpenSSL not found. Please install OpenSSL.">>
          /\ UNCHANGED dirs
     ELSE /\ ret' = Returned("validatePrerequisites", None, None)
          /\ thrown' = NoError
          /\ dirs' = dirs \cup {Str(caDir), Str(certsDir)}
  /\ written' = {}
  /\ swallowed' = {}
  /\ UNCHANGED <<files, nIssue, nGen, nKey, caCreated, genAborted, firstBoot,
                 issued, signed, deviceIds>>
  /\ Returns(by, "ensure", <<"Prerequisites validated">>, local)

\* the branch of ensureCAExists after the catch
GenerateCA(fault) ==
  LET password == randomBytesHex(nGen + 1)
      k == nKey + 1
      s1 == Genrsa(Start, caKeyPath, Str(password), k, fault, "genrsa")
      s2 == ReqX509(s1, caKeyPath, caCertPath, Str(password), fault, "req")
      s3 == WriteFile(s2, caPasswordPath, TextFile(password), fault, "writePass")
      s4 == ReadFile(s3, caCertPath, fault, "readCert")
  IN /\ files' = s4.fs
     /\ written' = s4.w
     /\ nGen' = nGen + 1
     /\ nKey' = IF s1.ok THEN k ELSE nKey
     /\ caCreated' = (caCreated \/ s4.ok)
     /\ genAborted' = (genAborted \/ ~s4.ok)
     /\ firstBoot' = IF firstBoot = None /\ s4.ok THEN s4.out ELSE firstBoot
     /\ ret' = IF s4.ok
               THEN Returned("ensureCAExists", None,
                             [caCertContent |-> s4.out, isNew |-> TRUE])
               ELSE Thrown("ensureCAExists", None, s4.stage)
     /\ thrown' = IF ret'.ok THEN NoError ELSE CAError(ret'.val.stage, password)

\* ensureCAExists: fs.access and fs.readFile of the CA certificate inside the
\* try; whatever they throw lands in the catch, which generates a CA
EnsureCAExists(fault, by) ==
  LET found == ReadFile(Start, caCertPath, fault, "readCA") IN
  /\ Called("ensure", by)
  /\ fault = "readCA" => Exists(files, caCertPath)
  /\ IF found.ok
     THEN /\ fault = "none"
          /\ ret' = Returned("ensureCAExists", None,
                             [caCertContent |-> found.out, isNew |-> FALSE])
          /\ written' = {}
          /\ firstBoot' = IF firstBoot = None THEN found.out ELSE firstBoot
          /\ thrown' = NoError
          /\ swallowed' = {}
          /\ UNCHANGED <<files, nGen, nKey, caCreated, genAborted>>
     ELSE /\ nGen < MaxCAGen
          /\ GenerateCA(fault)
          /\ swallowed' = {IF Exists(files, caCertPath) THEN "readCA" ELSE "accessCA"}
  /\ UNCHANGED <<dirs, nIssue, issued, signed, deviceIds>>
  /\ Returns(by, IF ret'.ok /\ ret'.val.isNew THEN "caInfo" ELSE "equipment",
             IF ret'.ok /\ ret'.val.isNew THEN <<"Root CA generated">>
             ELSE <<"Root CA found">>,
             [local EXCEPT !.caCertContent = ret'.val.caCertContent])

\* generateDeviceCertificate
GenerateDeviceCertificate(assetTag, hubId, equipmentId, fault, rnd, by) ==
  LET deviceId == randomUUID(nIssue + 1)
      k == nKey + 1
      args == [assetTag |-> assetTag, hubId |-> hubId, equipmentId |-> equipmentId,
               deviceId |-> deviceId]
      s1 == WriteFile(Start, configPath(assetTag),
                      ConfFile(Trim(opensslConfig(deviceId, equipmentId, hubId, assetTag))),
                      fault, "writeConfig")
      s2 == Genrsa(s1, privateKeyPath(assetTag), "", k, fault, "genrsa")
      s3 == ReqNew(s2, privateKeyPath(assetTag), csrPath(assetTag), configPath(assetTag),
                   fault, "req")
      s4 == ReadFile(s3, caPasswordPath, fault, "readPass")
      password == IF s4.ok /\ s4.out.type = "text" THEN s4.out.text ELSE <<>>
      s5 == X509Req(s4, csrPath(assetTag), caCertPath, caKeyPath, certPath(assetTag),
                    configPath(assetTag), Str(Trim(password)), rnd, fault, "sign")
      s6 == ReadFile(s5, certPath(assetTag), fault, "readCert")
      s7 == Unlink(Unlink(s6, csrPath(assetTag)), configPath(assetTag))
      info == [deviceId |-> Str(deviceId),
               equipmentId |-> equipmentId,
               fingerprint |-> Sha256(s6.out),
               certificatePath |-> certPath(assetTag),
               privateKeyPath |-> privateKeyPath(assetTag)]
  IN /\ Called("generate", by)
     \* main passes the operator's answers and the equipment id it was given
     /\ by = "main" => /\ answers = [assetTag |-> assetTag, hubId |-> hubId]
                       /\ local.equipmentId = equipmentId
     /\ nIssue < MaxIssue
     /\ Exists(files, caSerialPath) => \A r \in FirstSerials : rnd <= r
     /\ nIssue' = nIssue + 1
     /\ nKey' = IF s2.ok THEN k ELSE nKey
     /\ files' = s7.fs
     /\ written' = s7.w
     /\ deviceIds' = Append(deviceIds, Str(deviceId))
     /\ signed' = IF s5.ok THEN Append(signed, s5.fs[certPath(assetTag)]) ELSE signed
     /\ issued' = IF s7.ok
                  THEN Append(issued, [info |-> info, cert |-> s6.out,
                                       key |-> s7.fs[privateKeyPath(assetTag)],
                                       args |-> args])
                  ELSE issued
     /\ ret' = IF s7.ok
               THEN Returned("generateDeviceCertificate", args, info)
               ELSE Thrown("generateDeviceCertificate", args, s7.stage)
     /\ \E pass \in {Trim(password)} :
          thrown' = IF ret'.ok THEN NoError ELSE IssueError(ret'.val.stage, assetTag, pass)
     /\ swallowed' = {}
     /\ UNCHANGED <<dirs, nGen, caCreated, genAborted, firstBoot>>
     /\ Returns(by, "register", <<"Device certificate generated">>, local)

\* getCAInfo: the fingerprint of the CA certificate file; openssl x509 -dates
\* must be able to read it as a certificate
GetCAInfo(by) ==
  LET s1 == ReadFile(Start, caCertPath, "none", "readCA")
      s2 == IF s1.ok /\ s1.out.type # "cert" THEN Fail(s1, "dates") ELSE s1
  IN /\ Called("caInfo", by)
     /\ ret' = IF s2.ok
               THEN Returned("getCAInfo", None, [fingerprint |-> Sha256(s1.out)])
               ELSE Thrown("getCAInfo", None, s2.stage)
     /\ written' = s2.w
     /\ files' = s2.fs
     /\ thrown' = IF ret'.ok THEN NoError
                  ELSE IF ret'.val.stage = "dates"
                       THEN CommandFailed(<<"openssl x509 -in ", caCertPath, " -noout -dates">>)
                       ELSE FsError("ENOENT", caCertPath)
     /\ swallowed' = {}
     /\ UNCHANGED <<dirs, nIssue, nGen, nKey, caCreated, genAborted, firstBoot,
                    issued, signed, deviceIds>>
     /\ Returns(by, "upload", <<"Uploading CA to database...">>,
                [local EXCEPT !.caInfo = ret'.val])

\* getCAPath
GetCAPath ==
  /\ Called("", "direct")
  /\ ret' = Returned("getCAPath", None, caCertPath)
  /\ written' = {}
  /\ thrown' = NoError
  /\ swallowed' = {}
  /\ UNCHANGED <<dirs, files, nIssue, nGen, nKey, caCreated, genAborted, firstBoot,
                 issued, signed, deviceIds>>
  /\ Returns("direct", "", <<>>, local)

\* readCACertificate
ReadCACertificate ==
  LET s1 == ReadFile(Start, caCertPath, "none", "readCA")
  IN /\ Called("", "direct")
     /\ ret' = IF s1.ok
               THEN Returned("readCACertificate", None, s1.out)
               ELSE Thrown("readCACertificate", None, s1.stage)
     /\ written' = s1.w
     /\ files' = s1.fs
     /\ thrown' = IF ret'.ok THEN NoError ELSE FsError("ENOENT", caCertPath)
     /\ swallowed' = {}
     /\ UNCHANGED <<dirs, nIssue, nGen, nKey, caCreated, genAborted, firstBoot,
                    issued, signed, deviceIds>>
     /\ Returns("direct", "", <<>>, local)

EnsureFaults == {"none", "readCA", "genrsa", "req", "writePass"}
IssueFaults == {"none", "genrsa", "req", "readPass", "readCert"}

Next ==
  \/ \E fault \in {"none", "openssl"} : ValidatePrerequisites(fault, "direct")
  \/ \E fault \in EnsureFaults : EnsureCAExists(fault, "direct")
  \/ \E r \in Requests, fault \in IssueFaults, rnd \in FirstSerials :
       GenerateDeviceCertificate(r.assetTag, r.hubId, r.equipmentId, fault, rnd, "direct")
  \/ GetCAInfo("direct")
  \/ GetCAPath
  \/ ReadCACertificate

Spec == Init /\ [][Next]_vars

\* the operations that write: the three a provisioning run goes through
NextCore ==
  \/ \E fault \in {"none", "openssl"} : ValidatePrerequisites(fault, "direct")
  \/ \E fault \in EnsureFaults : EnsureCAExists(fault, "direct")
  \/ \E r \in Requests, fault \in IssueFaults, rnd \in FirstSerials :
       GenerateDeviceCertificate(r.assetTag, r.hubId, r.equipmentId, fault, rnd, "direct")

SpecCore == Init /\ [][NextCore]_vars

\* ---------------------------------------------------------------- registrar
\* a call of the registrar touches no file and none of the generator's state
RegistrarFrame ==
  /\ written' = {}
  /\ UNCHANGED <<dirs, files, nIssue, nGen, nKey, caCreated, genAborted, firstBoot,
                 issued, signed, deviceIds>>

\* validateConnection, then fetchHubs
FetchHubs(fault) ==
  /\ ret' = IF fault = "none" THEN Returned("fetchHubs", None, {HubPlain})
            ELSE Thrown(IF fault = "connect" THEN "validateConnection" ELSE "fetchHubs",
                        None, fault)
  /\ thrown' = CASE fault = "connect" -> <<"Failed to connect to Supabase: ", "db error">>
                 [] fault = "hubs" -> <<"Failed to fetch hubs: ", "db error">>
                 [] OTHER -> NoError
  /\ swallowed' = {}
  /\ UNCHANGED db
  /\ RegistrarFrame

\* uploadCAToDatabase: one insert; error code 23505 is ignored
UploadCAToDatabase(caCertContent, fingerprint, fault) ==
  /\ fault = "23505" => db.trusted_device_cas # {}
  /\ db' = IF fault = "none"
           THEN [db EXCEPT !.trusted_device_cas =
                   @ \cup {[certificate |-> caCertContent, fingerprint |-> fingerprint]}]
           ELSE db
  /\ ret' = IF fault = "error" THEN Thrown("uploadCAToDatabase", None, "insert")
            ELSE Returned("uploadCAToDatabase", None, None)
  /\ thrown' = IF fault = "error" THEN <<"Failed to upload CA: ", "db error">> ELSE NoError
  /\ swallowed' = IF fault = "23505" THEN {"duplicateCA"} ELSE {}
  /\ RegistrarFrame

\* ensureEquipmentExists: the lookup's error is not looked at, only its data;
\* .single() gives no data unless exactly one row matches
EnsureEquipmentExists(options, fault) ==
  LET rows == {e \in db.equipment_inventory :
                 e.asset_tag = options.assetTag /\ e.hub_id = options.hubId}
      existing == fault # "lookup" /\ Cardinality(rows) = 1
      id == FirstEquipmentId + Cardinality(db.equipment_inventory)
      args == [assetTag |-> options.assetTag, hubId |-> options.hubId]
  IN /\ fault = "insert" => ~existing
     /\ IF existing
        THEN /\ ret' = Returned("ensureEquipmentExists", args, (CHOOSE e \in rows : TRUE).id)
             /\ thrown' = NoError
             /\ swallowed' = {}
             /\ UNCHANGED db
        ELSE /\ swallowed' = {IF fault = "lookup" THEN "lookup"
                              ELSE IF rows = {} THEN "noRow" ELSE "manyRows"}
             /\ IF fault = "insert"
                THEN /\ ret' = Thrown("ensureEquipmentExists", args, "insert")
                     /\ thrown' = <<"Failed to create equipment: ", "db error">>
                     /\ UNCHANGED db
                ELSE /\ id \in EquipmentIds
                     /\ ret' = Returned("ensureEquipmentExists", args, id)
                     /\ thrown' = NoError
                     /\ db' = [db EXCEPT !.equipment_inventory =
                                 @ \cup {[id |-> id, asset_tag |-> options.assetTag,
                                          hub_id |-> options.hubId, device_id |-> "",
                                          device_certificate_fingerprint |-> None]}]
     /\ RegistrarFrame

\* preRegisterDevice: read the certificate file, insert the device row, then
\* update the equipment row
PreRegisterDevice(options, certInfo, fault) ==
  LET s1 == ReadFile(Start, certInfo.certificatePath, fault, "readCert")
      device == [device_id |-> certInfo.deviceId, equipment_id |-> certInfo.equipmentId,
                 certificate |-> s1.out, fingerprint |-> certInfo.fingerprint]
      inserted == [db EXCEPT !.registered_devices = @ \cup {device}]
      updated == [inserted EXCEPT !.equipment_inventory =
                    {IF e.id = certInfo.equipmentId
                     THEN [e EXCEPT !.device_id = certInfo.deviceId,
                                    !.device_certificate_fingerprint = certInfo.fingerprint]
                     ELSE e : e \in db.equipment_inventory}]
      args == [assetTag |-> options.assetTag, hubId |-> options.hubId]
  IN /\ db' = IF ~s1.ok \/ fault = "insert" THEN db
              ELSE IF fault = "update" THEN inserted ELSE updated
     /\ ret' = IF s1.ok /\ fault \notin {"insert", "update"}
               THEN Returned("preRegisterDevice", args, None)
               ELSE Thrown("preRegisterDevice", args, IF s1.ok THEN fault ELSE s1.stage)
     /\ thrown' = CASE ~s1.ok -> FsError("ENOENT", certInfo.certificatePath)
                    [] s1.ok /\ fault = "insert" -> <<"Failed to register device: ", "db error">>
                    [] s1.ok /\ fault = "update" -> <<"Failed to update equipment: ", "db error">>
                    [] OTHER -> NoError
     /\ swallowed' = {}
     /\ RegistrarFrame

\* --------------------------------------------------------------------- main
\* main is one sequence of awaits inside a try; pc is the await it is at.
\* A call that throws lands in the catch: the error's message is printed and
\* the process exits.
\* the start of main up to the confirmation: connect, fetch the hubs, ask
MainBegin(a, fault) ==
  /\ pc = "idle"
  /\ nIssue < MaxIssue
  /\ FetchHubs(IF fault = "cancel" THEN "none" ELSE fault)
  /\ pc' = IF fault = "none" THEN "validate" ELSE "idle"
  /\ console' = <<IF fault = "cancel" THEN <<"Registration cancelled.">>
                  ELSE IF ret'.ok THEN <<"Configuration Summary: ">> \o a.assetTag
                  ELSE SetupFailed(thrown')>>
  /\ local' = NoLocals
  /\ answers' = IF fault = "none" THEN a ELSE None

MainUpload(fault) ==
  /\ pc = "upload"
  /\ UploadCAToDatabase(local.caCertContent, local.caInfo.fingerprint, fault)
  /\ Await("equipment", <<"CA uploaded to database">>, local)

MainEquipment(fault) ==
  /\ pc = "equipment"
  /\ EnsureEquipmentExists(answers, fault)
  /\ Await("generate", <<"Equipment record ready (ID: ">> \o
                         (IF ret'.ok THEN NumToStr(ret'.val) ELSE <<>>) \o <<")">>,
           [local EXCEPT !.equipmentId = ret'.val])

\* the last await; after it main prints the summary and returns
MainRegister(fault) ==
  LET certInfo == issued[Len(issued)].info IN
  /\ pc = "register"
  /\ PreRegisterDevice(answers, certInfo, fault)
  /\ Await("idle", <<"DEVICE SETUP COMPLETE! Device ID: ", certInfo.deviceId,
                     " Certificate: ", certInfo.certificatePath,
                     " Private Key: ", certInfo.privateKeyPath,
                     " CA Cert: ", caCertPath>>, local)

BeginFaults == {"none", "connect", "hubs", "cancel"}
UploadFaults == {"none", "23505", "error"}
EquipmentFaults == {"none", "lookup", "insert"}
RegisterFaults == {"none", "readCert", "insert", "update"}

NextMain ==
  \/ \E a \in Answers, fault \in BeginFaults : MainBegin(a, fault)
  \/ \E fault \in {"none", "openssl"} : ValidatePrerequisites(fault, "main")
  \/ \E fault \in EnsureFaults : EnsureCAExists(fault, "main")
  \/ GetCAInfo("main")
  \/ \E fault \in UploadFaults : MainUpload(fault)
  \/ \E fault \in EquipmentFaults : MainEquipment(fault)
  \/ \E a \in Answers, e \in EquipmentIds, fault \in IssueFaults, rnd \in FirstSerials :
       GenerateDeviceCertificate(a.assetTag, a.hubId, e, fault, rnd, "main")
  \/ \E fault \in RegisterFaults : MainRegister(fault)

SpecMain == Init /\ [][NextMain]_vars

\* ------------------------------------------------------------------- claims
IsEnsure == ret.op = "ensureCAExists"
IsIssue == ret.op = "generateDeviceCertificate"

\* C1: once an ensureCAExists call has succeeded, every later ensureCAExists
\* call returns isNew = false with the certificate content of the first one
\* and writes none of the CA key, certificate and passphrase files.
C1_LaterEnsureIsIdempotent ==
  (IsEnsure /\ ret.pre.booted) =>
    /\ ret.ok
    /\ ret.val.isNew = FALSE
    /\ ret.val.caCertContent = firstBoot
    /\ written \cap CAPaths = {}

\* C2: once ensureCAExists has created a CA, no step of any operation changes
\* the CA key, certificate or passphrase file.
C2_CANeverOverwritten ==
  [][caCreated => \A p \in CAPaths : files'[p] = files[p]]_vars

\* C3: after a CA generation that ended in an error, ensureCAExists never
\* returns isNew = false unless key, certificate and passphrase are all on
\* disk and belong together.
C3_NoPartialCAReported ==
  (genAborted /\ IsEnsure /\ ret.ok /\ ~ret.val.isNew) => CAState(files) = "complete"

\* the key file and the certificate file of an asset tag, where they lie in
\* the device-certificates directory
DeviceArtifacts(assetTag) ==
  {p \in {privateKeyPath(assetTag), certPath(assetTag)} : DirTable[p] = Str(certsDir)}

\* C4: generateDeviceCertificate called with no CA file on disk fails and
\* leaves neither a key file nor a certificate file for its asset tag in the
\* device-certificates directory.
C4_NoCANoDeviceFiles ==
  (IsIssue /\ ret.pre.ca = "none") =>
    /\ ~ret.ok
    /\ \A p \in DeviceArtifacts(ret.args.assetTag) : ~Exists(files, p)

\* C5: with a complete CA on disk, a generateDeviceCertificate call that fails
\* leaves in the device-certificates directory no key file and no certificate
\* file that it wrote for its asset tag.
C5_FailedIssuanceLeavesNothing ==
  (IsIssue /\ ~ret.ok /\ ret.pre.ca = "complete") =>
    \A p \in DeviceArtifacts(ret.args.assetTag) : p \in written => ~Exists(files, p)

\* C6: the certificate file and the key file of every successful
\* generateDeviceCertificate call keep the content they had when it returned.
C6_IssuedFilesImmutable ==
  \A i \in 1..Len(issued) :
    /\ files[issued[i].info.certificatePath] = issued[i].cert
    /\ files[issued[i].info.privateKeyPath] = issued[i].key

\* C7: the deviceId a call returns is the subject common name of its
\* certificate and the value of its urn:device SAN entry, and no two calls
\* have the same deviceId.
C7_DeviceIdBound ==
  /\ \A i \in 1..Len(issued) :
       /\ issued[i].cert.cn = issued[i].info.deviceId
       /\ \E j \in 1..Len(issued[i].cert.san) :
            issued[i].cert.san[j] =
              [kind |-> "URI", value |-> "urn:device:" \o issued[i].info.deviceId]
  /\ \A i, j \in 1..Len(deviceIds) : i # j => deviceIds[i] # deviceIds[j]

\* the four SAN entries the specification lists for a call
ExpectedSAN(a) ==
  <<[kind |-> "URI", value |-> "urn:device:" \o Str(a.deviceId)],
    [kind |-> "URI", value |-> "urn:equipment:" \o Str(NumToStr(a.equipmentId))],
    [kind |-> "URI", value |-> "urn:hub:" \o Str(a.hubId)],
    [kind |-> "DNS", value |-> Str(a.assetTag) \o ".booth.internal"]>>

\* C8: the SAN list of every issued certificate is exactly urn:device:<deviceId>,
\* urn:equipment:<equipmentId>, urn:hub:<hubId>, <assetTag>.booth.internal, in
\* that order, each with the caller's value as given.
C8_SanExactlyFour ==
  \A i \in 1..Len(issued) : issued[i].cert.san = ExpectedSAN(issued[i].args)

\* C9: two certificates signed by the same CA key never have the same serial
\* number, whatever calls succeeded or failed before.
C9_SerialsUnique ==
  \A i, j \in 1..Len(signed) :
    (i # j /\ signed[i].issuerKey = signed[j].issuerKey)
      => signed[i].serial # signed[j].serial
\* two certificates of one CA have been signed, the second with the serial
\* after the first
C9_Witness ==
  /\ Len(signed) = 2
  /\ signed[1].issuerKey = signed[2].issuerKey
  /\ signed[1].serial + 1 = signed[2].serial

\* C10: every issued leaf certificate is signed by the key of the CA
\* certificate that is on disk now (the one ensureCAExists returns), and is
\* marked as not a CA; stated for the leaves issued for a plain hub id.
C10_LeavesVerifyAgainstCurrentCA ==
  \A i \in 1..Len(issued) :
    issued[i].args.hubId = HubPlain =>
      /\ files[caCertPath].type = "cert"
      /\ issued[i].cert.issuerKey = files[caCertPath].subjectKey
      /\ ~issued[i].cert.ca

\* every passphrase a CA generation can draw
Passphrases == {randomBytesHex(n) : n \in 1..MaxCAGen}
\* the tokens of `secret` stand in `text`, one after the other
Occurs(secret, text) ==
  \E i \in 1..(Len(text) - Len(secret) + 1) : SubSeq(text, i, i + Len(secret) - 1) = secret

\* C11: no CA passphrase stands in the message of a thrown error or in a line
\* main prints, whatever step of a run fails.
C11_PassphraseNeverDisclosed ==
  \A p \in Passphrases :
    /\ ~Occurs(p, thrown)
    /\ \A i \in 1..Len(console) : ~Occurs(p, console[i])

Getters == {"getCAInfo", "getCAPath", "readCACertificate"}
\* C12: getCAInfo fails when there is no CA certificate file, and no call of
\* getCAInfo, getCAPath or readCACertificate changes a file or a directory.
C12_GettersReadOnly ==
  /\ []((ret.op = "getCAInfo" /\ ~Exists(files, caCertPath)) => ~ret.ok)
  /\ [][ret'.op \in Getters => (files' = files /\ dirs' = dirs)]_vars
\* getCAInfo has been called with no CA certificate on disk and has thrown
C12_Witness ==
  /\ ret.op = "getCAInfo"
  /\ ~ret.ok
  /\ ~Exists(files, caCertPath)
  /\ Str(caDir) \in dirs

\* the signing request and the configuration file of an asset tag, where they
\* lie in the device-certificates directory
RequestMaterial(assetTag) ==
  {p \in {csrPath(assetTag), configPath(assetTag)} : DirTable[p] = Str(certsDir)}

\* C13: when generateDeviceCertificate has returned or thrown, neither the
\* .csr file nor the openssl configuration file of its asset tag is left in
\* the device-certificates directory.
C13_NoRequestMaterialLeft ==
  IsIssue => \A p \in RequestMaterial(ret.args.assetTag) : ~Exists(files, p)

\* the failures a call may pass over: the duplicate-CA error, and the lookups
\* that find nothing (no CA certificate file, no equipment row)
Tolerated == {"duplicateCA", "accessCA", "noRow"}

\* C14: a call in which a step failed throws; the only failures a call that
\* returns has passed over are the duplicate-CA error and a lookup that found
\* nothing. In particular not a failed read of an existing CA certificate and
\* not a failed equipment lookup.
C14_FailuresSurface ==
  ret.ok => swallowed \subseteq Tolerated

\* C15: the CA that signed the certificate of a registered device is in the
\* trusted-CA table.
C15_RegisteredDeviceHasTrustedCA ==
  \A d \in db.registered_devices :
    \E c \in db.trusted_device_cas :
      /\ c.certificate.type = "cert"
      /\ c.certificate.subjectKey = d.certificate.issuerKey

====
